---------------------------- MODULE Spec2Model ----------------------------
(***************************************************************************)
(* The EPUB editor prototypes of caoyang2002/epub-yes as a state machine.  *)
(*                                                                         *)
(* Two builds of EpubEditor exist in the repository:                       *)
(*   "ui"  : src/src/ui.rs   (current_content, edit_content)               *)
(*   "ui2" : src/test/ui2.rs (epub, current_item_id, edit_content,         *)
(*                            editor_mode, markdown_preview)               *)
(* The variable build says which one runs; it is fixed at start-up.  One   *)
(* action of the model is one call of EpubEditor::update with one Message. *)
(* Command::perform futures dispatched by OpenEpub are kept in tasks until *)
(* the runtime delivers their output as Message::EpubLoaded.               *)
(***************************************************************************)
EXTENDS Naturals, Sequences, FiniteSets, TLC

VARIABLES
    build,            \* which EpubEditor is running: "ui" or "ui2"
    epub,             \* ui2: EpubEditor.epub
    current_item_id,  \* ui2: EpubEditor.current_item_id (Option<String>)
    edit_content,     \* ui, ui2: EpubEditor.edit_content
    editor_mode,      \* ui2: EpubEditor.editor_mode
    markdown_preview, \* ui2: EpubEditor.markdown_preview
    current_content,  \* ui: EpubEditor.current_content
    tasks,            \* the futures of Command::perform, by executor slot
    msg,              \* the Message the last call of update processed (its variant)
    ret,              \* the Command the last call of update returned
    epub_doc,         \* open_epub: what EpubDoc::new(path) gave the call
    opened            \* open_epub: what the call returned

vars == <<build, epub, current_item_id, edit_content, editor_mode,
          markdown_preview, current_content, tasks, msg, ret,
          epub_doc, opened>>

\* the fields of the editor that view() reads, i.e. the editor state proper
editor == <<epub, current_item_id, edit_content, editor_mode,
            markdown_preview, current_content>>

\* the variables of a call of EpubHandler::open_epub on its own
handler == <<epub_doc, opened>>

-----------------------------------------------------------------------------
(* Bounds *)

\* futures that may be in flight at once (the code sets no limit)
MaxInFlight == 2

\* keys of a metadata table handed to open_epub
MaxKeys == 2

\* values under one metadata key
MaxValues == 2

\* the manifest ids of the documents and of SelectItem
Ids == {"a", "b"}

\* the texts the user types (EditContent, UpdateMetadata)
Texts == {"", "hello"}

\* the content of the items of a document as parsed; no typed text, so that
\* "hello" in a manifest is there by a SaveContent
DocTexts == {"chapter"}

-----------------------------------------------------------------------------
(* Option<String> *)

None == [tag |-> "None"]

Some(x) == [tag |-> "Some", val |-> x]

-----------------------------------------------------------------------------
(* The Epub data structure *)

EmptyManifest == [i \in {} |-> i]

EpubMetadata(t, a, l) == [title |-> t, author |-> a, language |-> l]

EpubItem(i, c) ==
    [id |-> i, href |-> i \o ".xhtml", media_type |-> "application/xhtml+xml",
     content |-> c]

\* Epub::new()
Epub_new ==
    [metadata |-> EpubMetadata("", "", ""), spine |-> <<>>,
     manifest |-> EmptyManifest]

\* duplicate-free sequences over S of length at most n
RECURSIVE SeqsNoDup(_, _)
SeqsNoDup(S, n) ==
    IF n = 0 THEN {<<>>}
    ELSE {<<>>} \cup
         UNION {{<<x>> \o s : s \in SeqsNoDup(S \ {x}, n - 1)} : x \in S}

\* The documents the Package Parser hands over: title and language are not
\* empty and the spine is a duplicate-free sequence of manifest keys (a
\* dangling reference fails the parse).
ParsedDocuments ==
    {[metadata |-> EpubMetadata("hello", "hello", "hello"), spine |-> sp,
      manifest |-> [i \in DOMAIN c |-> EpubItem(i, c[i])]] :
        <<c, sp>> \in UNION {[S -> DocTexts] \X SeqsNoDup(S, Cardinality(S)) :
                               S \in SUBSET Ids}}

\* The documents a load can deliver: what the stub in OpenEpub returns, and
\* what the parser is to return in its place
Documents == {Epub_new} \cup ParsedDocuments


-----------------------------------------------------------------------------
(* Result<T, String> *)

Ok(v) == [ok |-> TRUE, val |-> v]

Err(e) == [ok |-> FALSE, err |-> e]

-----------------------------------------------------------------------------
(* src/src/epub_handler.rs *)

\* A String of the handler is the sequence of its pieces: a piece is either
\* the line break "\n" or a text without line breaks.  Text(s) is the String
\* as one value.
RECURSIVE Text(_)
Text(s) == IF s = <<>> THEN "" ELSE Head(s) \o Text(Tail(s))

\* s[1], sep, s[2], sep, ... : Vec<String>::join
RECURSIVE Join(_, _)
Join(s, sep) ==
    IF s = <<>> THEN <<>>
    ELSE IF Len(s) = 1 THEN s[1]
    ELSE s[1] \o sep \o Join(Tail(s), sep)

\* What EpubDoc::new(path) of the epub crate gives for the files a user can
\* pick: the metadata table of the book, as the (key, values) pairs in the
\* order the table iterates them, or the library's error.
EpubDocResults ==
    {Ok(<<>>),
     Ok(<< << <<"title">>, << <<"T">> >> >> >>),
     Ok(<< << <<"title">>, << <<"T">> >> >>,
           << <<"creator">>, << <<"A">>, <<"B">> >> >> >>),
     Err(<<"not a zip">>)}

\* EpubHandler::open_epub with every line of the dump ended by "\n"
open_epub_TrailingNewline(doc) ==
    IF doc.ok
    THEN Ok(Join([i \in 1..Len(doc.val) |->
                    doc.val[i][1] \o <<": ">> \o Join(doc.val[i][2], <<", ">>)
                    \o <<"\n">>],
                 <<>>))
    ELSE Err(<<"Error opening EPUB: ">> \o doc.err)

\* EpubHandler::open_epub, given the outcome of EpubDoc::new(path)
open_epub(doc) ==
    IF doc.ok
    THEN Ok(Join([i \in 1..Len(doc.val) |->
                    doc.val[i][1] \o <<": ">> \o Join(doc.val[i][2], <<", ">>)],
                 <<"\n">>))
    ELSE Err(<<"Error opening EPUB: ">> \o doc.err)

\* the Result<String, String> of open_epub as the future hands it on
Returned(r) == IF r.ok THEN Ok(Text(r.val)) ELSE Err(Text(r.err))

\* The metadata keys and values the tables are made of; a description may
\* run over two lines
KeyNames == {<<"title">>, <<"creator">>, <<"description">>}

Values == {<<"A">>, <<"x", "\n", "y">>}

\* the sequences over S of length at most n
RECURSIVE SeqsUpTo(_, _)
SeqsUpTo(S, n) ==
    IF n = 0 THEN {<<>>}
    ELSE LET shorter == SeqsUpTo(S, n - 1)
         IN  shorter \cup {Append(q, x) : q \in shorter, x \in S}

\* EpubDoc.metadata, a HashMap<String, Vec<String>>: the (key, values) pairs
\* in an order the map may iterate them, every key once
MetadataTables ==
    {t \in SeqsUpTo(KeyNames \X SeqsUpTo(Values, MaxValues), MaxKeys) :
       \A i, j \in 1..Len(t) : t[i][1] = t[j][1] => i = j}

\* the outcomes of EpubDoc::new(path) over all paths
EpubDocOutcomes ==
    {Ok(t) : t \in MetadataTables} \cup {Err(<<"not a zip">>)}

-----------------------------------------------------------------------------
(* The futures of Command::perform *)

NoFileSelected == "No file selected"

\* src/src/ui.rs, OpenEpub: the outputs the future can yield
Ui_LoadResults ==
    {Err(NoFileSelected)} \cup {Returned(open_epub(d)) : d \in EpubDocResults}

\* The failures of the Container Codec and the Package Parser
ParseErrors == {"DanglingSpineReference"}

\* The parsing the future of src/test/ui2.rs is to do where the stub stands
ParseEpub == {Ok(d) : d \in Documents} \cup {Err(e) : e \in ParseErrors}

\* src/test/ui2.rs, OpenEpub: the outputs the future can yield
LoadResults == {Err(NoFileSelected)} \cup ParseEpub

\* msg records the variant of the Message; of its payload only the outcome
\* of a load is kept
LoadedMsg(result) ==
    [type |-> "EpubLoaded", ok |-> result.ok,
     err |-> IF result.ok THEN "" ELSE result.err]

\* The executor's slots.  A slot is "idle", or runs the future of the
\* "latest" OpenEpub, or one that a later OpenEpub has "superseded".
Slots == 1..MaxInFlight

InFlight(ts) == {k \in Slots : ts[k] # "idle"}

\* Command::perform: one more future runs, in the first idle slot; the ones
\* already running are superseded by it
Dispatch(ts) ==
    LET free == CHOOSE k \in Slots \ InFlight(ts) :
                    \A j \in Slots \ InFlight(ts) : k <= j
    IN  [j \in Slots |-> IF j = free THEN "latest"
                         ELSE IF ts[j] = "idle" THEN "idle" ELSE "superseded"]

\* the future in slot k has yielded its output and is gone
Completed(ts, k) == [ts EXCEPT ![k] = "idle"]

-----------------------------------------------------------------------------
(* src/test/ui2.rs: EpubEditor::update *)

\* pulldown-cmark on the texts of the model: a paragraph of plain text
Render(text) == IF text = "" THEN "" ELSE "<p>" \o text \o "</p>\n"

\* update_markdown_preview: the new markdown_preview for a buffer
update_markdown_preview(buffer) == Render(buffer)

\* LoadedEpub with the Err branch dropping the open document
LoadedEpub_ResetOnError(result, e) ==
    IF result.ok THEN result.val ELSE Epub_new

\* LoadedEpub taking over the new spine but not the new manifest
LoadedEpub_KeepManifest(result, e) ==
    IF result.ok THEN [result.val EXCEPT !.manifest = e.manifest] ELSE e

\* EpubLoaded: self.epub afterwards
LoadedEpub(result, e) == IF result.ok THEN result.val ELSE e

\* EpubLoaded: current_item_id afterwards
LoadedItemId(result, cur) ==
    IF result.ok /\ result.val.spine # <<>>
    THEN Some(Head(result.val.spine))
    ELSE cur

\* EpubLoaded: edit_content afterwards
LoadedBuffer(result, buffer) ==
    IF /\ result.ok
       /\ result.val.spine # <<>>
       /\ Head(result.val.spine) \in DOMAIN result.val.manifest
    THEN result.val.manifest[Head(result.val.spine)].content
    ELSE buffer

\* SelectedBuffer without the load of the item's content
SelectedBuffer_Keep(e, id, buffer) == buffer

\* SelectItem: edit_content afterwards
SelectedBuffer(e, id, buffer) ==
    IF id \in DOMAIN e.manifest THEN e.manifest[id].content ELSE buffer

\* SavedEpub writing the buffer into every item of the manifest
SavedEpub_AllItems(e, cur, buffer) ==
    IF cur # None /\ cur.val \in DOMAIN e.manifest
    THEN [e EXCEPT !.manifest =
            [i \in DOMAIN e.manifest |-> [e.manifest[i] EXCEPT !.content = buffer]]]
    ELSE e

\* SaveContent: self.epub afterwards
SavedEpub(e, cur, buffer) ==
    IF cur # None /\ cur.val \in DOMAIN e.manifest
    THEN [e EXCEPT !.manifest[cur.val].content = buffer]
    ELSE e

\* UpdateMetadata with the Author arm assigning metadata.title
UpdatedMetadata_AuthorIntoTitle(m, field, value) ==
    CASE field = "Title"    -> [m EXCEPT !.title = value]
      [] field = "Author"   -> [m EXCEPT !.title = value]
      [] field = "Language" -> [m EXCEPT !.language = value]

\* UpdateMetadata: self.epub.metadata afterwards
UpdatedMetadata(m, field, value) ==
    CASE field = "Title"    -> [m EXCEPT !.title = value]
      [] field = "Author"   -> [m EXCEPT !.author = value]
      [] field = "Language" -> [m EXCEPT !.language = value]

MetadataField == {"Title", "Author", "Language"}

\* ToggleEditorMode: self.editor_mode afterwards
ToggledMode(mode) == IF mode = "RichText" THEN "Markdown" ELSE "RichText"

\* OpenEpub closing the open document before the load has completed
OpenEpub_ClearsFirst ==
    /\ build = "ui2"
    /\ InFlight(tasks) # Slots
    /\ tasks' = Dispatch(tasks)
    /\ msg' = [type |-> "OpenEpub"]
    /\ ret' = "Command::perform"
    /\ UNCHANGED handler
    /\ epub' = Epub_new
    /\ current_item_id' = None
    /\ edit_content' = ""
    /\ UNCHANGED <<build, editor_mode, markdown_preview, current_content>>

OpenEpub ==
    /\ build = "ui2"
    /\ InFlight(tasks) # Slots
    /\ tasks' = Dispatch(tasks)
    /\ msg' = [type |-> "OpenEpub"]
    /\ ret' = "Command::perform"
    /\ UNCHANGED handler
    /\ UNCHANGED <<build, epub, current_item_id, edit_content, editor_mode,
                   markdown_preview, current_content>>

EpubLoaded(i, result) ==
    /\ build = "ui2"
    /\ i \in InFlight(tasks)
    /\ result \in LoadResults
    /\ tasks' = Completed(tasks, i)
    /\ msg' = LoadedMsg(result)
    /\ ret' = "Command::none"
    /\ UNCHANGED handler
    /\ epub' = LoadedEpub(result, epub)
    /\ current_item_id' = LoadedItemId(result, current_item_id)
    /\ edit_content' = LoadedBuffer(result, edit_content)
    /\ UNCHANGED <<build, editor_mode, markdown_preview, current_content>>

\* SelectItem saving the buffer into the item it leaves
SelectItem_AutoSave(id) ==
    /\ build = "ui2"
    /\ epub' = SavedEpub(epub, current_item_id, edit_content)
    /\ current_item_id' = Some(id)
    /\ edit_content' = SelectedBuffer(epub, id, edit_content)
    /\ markdown_preview' = update_markdown_preview(edit_content')
    /\ msg' = [type |-> "SelectItem"]
    /\ ret' = "Command::none"
    /\ UNCHANGED handler
    /\ UNCHANGED <<build, editor_mode, current_content, tasks>>

SelectItem(id) ==
    /\ build = "ui2"
    /\ current_item_id' = Some(id)
    /\ edit_content' = SelectedBuffer(epub, id, edit_content)
    /\ markdown_preview' = update_markdown_preview(edit_content')
    /\ msg' = [type |-> "SelectItem"]
    /\ ret' = "Command::none"
    /\ UNCHANGED handler
    /\ UNCHANGED <<build, epub, editor_mode, current_content, tasks>>

EditContent(content) ==
    /\ build = "ui2"
    /\ edit_content' = content
    /\ markdown_preview' = IF editor_mode = "Markdown"
                           THEN update_markdown_preview(content)
                           ELSE markdown_preview
    /\ msg' = [type |-> "EditContent"]
    /\ ret' = "Command::none"
    /\ UNCHANGED handler
    /\ UNCHANGED <<build, epub, current_item_id, editor_mode, current_content,
                   tasks>>

SaveContent ==
    /\ build = "ui2"
    /\ epub' = SavedEpub(epub, current_item_id, edit_content)
    /\ msg' = [type |-> "SaveContent"]
    /\ ret' = "Command::none"
    /\ UNCHANGED handler
    /\ UNCHANGED <<build, current_item_id, edit_content, editor_mode,
                   markdown_preview, current_content, tasks>>

UpdateMetadata(field, value) ==
    /\ build = "ui2"
    /\ epub' = [epub EXCEPT !.metadata = UpdatedMetadata(@, field, value)]
    /\ msg' = [type |-> "UpdateMetadata"]
    /\ ret' = "Command::none"
    /\ UNCHANGED handler
    /\ UNCHANGED <<build, current_item_id, edit_content, editor_mode,
                   markdown_preview, current_content, tasks>>

ToggleEditorMode ==
    /\ build = "ui2"
    /\ editor_mode' = ToggledMode(editor_mode)
    /\ markdown_preview' = IF editor_mode' = "Markdown"
                           THEN update_markdown_preview(edit_content)
                           ELSE markdown_preview
    /\ msg' = [type |-> "ToggleEditorMode"]
    /\ ret' = "Command::none"
    /\ UNCHANGED handler
    /\ UNCHANGED <<build, epub, current_item_id, edit_content,
                   current_content, tasks>>

UpdateMarkdownPreview ==
    /\ build = "ui2"
    /\ markdown_preview' = update_markdown_preview(edit_content)
    /\ msg' = [type |-> "UpdateMarkdownPreview"]
    /\ ret' = "Command::none"
    /\ UNCHANGED handler
    /\ UNCHANGED <<build, epub, current_item_id, edit_content, editor_mode,
                   current_content, tasks>>

-----------------------------------------------------------------------------
(* src/src/ui.rs: EpubEditor::update *)

\* EpubLoaded whose Ok arm assigns current_content and keeps the edit buffer
Ui_Loaded_ShownOnly(result, shown, buffer) ==
    IF result.ok THEN <<result.val, buffer>> ELSE <<shown, buffer>>

\* EpubLoaded: <<current_content, edit_content>> afterwards
Ui_Loaded(result, shown, buffer) ==
    IF result.ok THEN <<result.val, result.val>> ELSE <<shown, buffer>>

Ui_OpenEpub ==
    /\ build = "ui"
    /\ InFlight(tasks) # Slots
    /\ tasks' = Dispatch(tasks)
    /\ msg' = [type |-> "OpenEpub"]
    /\ ret' = "Command::perform"
    /\ UNCHANGED handler
    /\ UNCHANGED <<build, epub, current_item_id, edit_content, editor_mode,
                   markdown_preview, current_content>>

Ui_EpubLoaded(i, result) ==
    /\ build = "ui"
    /\ i \in InFlight(tasks)
    /\ result \in Ui_LoadResults
    /\ tasks' = Completed(tasks, i)
    /\ msg' = LoadedMsg(result)
    /\ ret' = "Command::none"
    /\ UNCHANGED handler
    /\ current_content' = Ui_Loaded(result, current_content, edit_content)[1]
    /\ edit_content' = Ui_Loaded(result, current_content, edit_content)[2]
    /\ UNCHANGED <<build, epub, current_item_id, editor_mode, markdown_preview>>

\* EditContent that also shows the typed text as the saved content
Ui_EditContent_ShowsToo(content) ==
    /\ build = "ui"
    /\ edit_content' = content
    /\ current_content' = content
    /\ msg' = [type |-> "EditContent"]
    /\ ret' = "Command::none"
    /\ UNCHANGED handler
    /\ UNCHANGED <<build, epub, current_item_id, editor_mode, markdown_preview,
                   tasks>>

Ui_EditContent(content) ==
    /\ build = "ui"
    /\ edit_content' = content
    /\ msg' = [type |-> "EditContent"]
    /\ ret' = "Command::none"
    /\ UNCHANGED handler
    /\ UNCHANGED <<build, epub, current_item_id, editor_mode, markdown_preview,
                   current_content, tasks>>

Ui_SaveContent ==
    /\ build = "ui"
    /\ current_content' = edit_content
    /\ msg' = [type |-> "SaveContent"]
    /\ ret' = "Command::none"
    /\ UNCHANGED handler
    /\ UNCHANGED <<build, epub, current_item_id, edit_content, editor_mode,
                   markdown_preview, tasks>>

Ui_Test ==
    /\ build = "ui"
    /\ msg' = [type |-> "Test"]
    /\ ret' = "Command::none"
    /\ UNCHANGED handler
    /\ UNCHANGED <<build, epub, current_item_id, edit_content, editor_mode,
                   markdown_preview, current_content, tasks>>

-----------------------------------------------------------------------------
(* view(): the texts the window shows that come from the editor's state *)

Range(s) == {s[i] : i \in DOMAIN s}

ViewTexts ==
    IF build = "ui"
    THEN {current_content, edit_content}
    ELSE {epub.metadata.title, epub.metadata.author, epub.metadata.language,
          edit_content}
         \cup Range(epub.spine)
         \cup (IF editor_mode = "Markdown" THEN {markdown_preview} ELSE {})

-----------------------------------------------------------------------------
(* The specification *)

\* EpubEditor::new of either build; no update has run yet
Init ==
    /\ build \in {"ui", "ui2"}
    /\ epub = Epub_new
    /\ current_item_id = None
    /\ edit_content = ""
    /\ editor_mode = "RichText"
    /\ markdown_preview = ""
    /\ current_content = ""
    /\ tasks = [k \in Slots |-> "idle"]
    /\ msg = [type |-> "none"]
    /\ ret = "Command::none"
    /\ epub_doc = None
    /\ opened = None

Next ==
    \/ OpenEpub
    \/ \E i \in Slots, result \in LoadResults : EpubLoaded(i, result)
    \/ \E id \in Ids : SelectItem(id)
    \/ \E content \in Texts : EditContent(content)
    \/ SaveContent
    \/ \E field \in MetadataField, value \in Texts : UpdateMetadata(field, value)
    \/ ToggleEditorMode
    \/ UpdateMarkdownPreview
    \/ Ui_OpenEpub
    \/ \E i \in Slots, result \in Ui_LoadResults : Ui_EpubLoaded(i, result)
    \/ \E content \in Texts : Ui_EditContent(content)
    \/ Ui_SaveContent
    \/ Ui_Test

Spec == Init /\ [][Next]_vars

\* the runtime delivers the output of the future in slot k
Delivery(k) ==
    \/ \E result \in LoadResults : EpubLoaded(k, result)
    \/ \E result \in Ui_LoadResults : Ui_EpubLoaded(k, result)

\* The load results with at most one manifest item
FairLoadResults ==
    {r \in LoadResults : r.ok => Cardinality(DOMAIN r.val.manifest) <= 1}

\* The same handlers as Next with fewer inputs, for the liveness properties:
\* documents of at most one item, one typed text, one metadata update.  The
\* futures read none of these.
FairNext ==
    \/ OpenEpub
    \/ \E i \in Slots, result \in FairLoadResults : EpubLoaded(i, result)
    \/ \E id \in Ids : SelectItem(id)
    \/ EditContent("hello")
    \/ SaveContent
    \/ UpdateMetadata("Title", "hello")
    \/ ToggleEditorMode
    \/ UpdateMarkdownPreview
    \/ Ui_OpenEpub
    \/ \E i \in Slots, result \in Ui_LoadResults : Ui_EpubLoaded(i, result)
    \/ Ui_EditContent("hello")
    \/ Ui_SaveContent
    \/ Ui_Test

\* executor::Default polls every future it was given and the user ends the
\* file dialog, so the output of a future in flight is delivered: weak
\* fairness of the delivery from each slot.
FairSpec ==
    Init /\ [][FairNext]_vars /\ \A k \in Slots : WF_vars(Delivery(k))

-----------------------------------------------------------------------------
(* EpubHandler::open_epub called on its own *)

\* EpubDoc::new(path) has given its outcome; open_epub has not returned yet
HandlerInit ==
    /\ build = "ui"
    /\ epub = Epub_new
    /\ current_item_id = None
    /\ edit_content = ""
    /\ editor_mode = "RichText"
    /\ markdown_preview = ""
    /\ current_content = ""
    /\ tasks = [k \in Slots |-> "idle"]
    /\ msg = [type |-> "none"]
    /\ ret = "Command::none"
    /\ epub_doc \in {Some(d) : d \in EpubDocOutcomes}
    /\ opened = None

\* open_epub returns
OpenEpubReturns ==
    /\ opened = None
    /\ opened' = Some(open_epub(epub_doc.val))
    /\ UNCHANGED <<build, epub, current_item_id, edit_content, editor_mode,
                   markdown_preview, current_content, tasks, msg, ret,
                   epub_doc>>

HandlerNext == OpenEpubReturns

HandlerSpec == HandlerInit /\ [][HandlerNext]_vars

-----------------------------------------------------------------------------
(* How a failure can reach the user: the Command update returns names it, or
   view() shows it *)

ErrorReported(kind) == ret = kind \/ kind \in ViewTexts

\* the last call of update delivered a failed load
LoadFailed == msg.type = "EpubLoaded" /\ ~msg.ok

-----------------------------------------------------------------------------
(* C1 *)

\* C1: SaveContent with an item of the manifest open writes the edit buffer
\* (which holds the text of the last EditContent since the item was opened)
\* into that item's content and changes nothing else of the document: the other
\* items, the keys of the manifest, the item's id, href and media type, the
\* spine and the metadata stay as they were.
CommitWritesOnlyOpenItem ==
    [][(/\ build = "ui2"
        /\ msg'.type = "SaveContent"
        /\ current_item_id # None
        /\ current_item_id.val \in DOMAIN epub.manifest)
       => LET id == current_item_id.val IN
          /\ epub'.manifest[id].content = edit_content
          /\ epub'.manifest[id] = [epub.manifest[id] EXCEPT !.content = edit_content]
          /\ DOMAIN epub'.manifest = DOMAIN epub.manifest
          /\ \A j \in DOMAIN epub.manifest \ {id} :
                epub'.manifest[j] = epub.manifest[j]
          /\ epub'.spine = epub.spine
          /\ epub'.metadata = epub.metadata]_vars

\* b was opened in a book with spine a, b; "hello" was typed and committed:
\* b holds "hello", a still holds its parsed content
CommitWitness ==
    /\ build = "ui2"
    /\ msg.type = "SaveContent"
    /\ current_item_id = Some("b")
    /\ epub.spine = <<"a", "b">>
    /\ DOMAIN epub.manifest = {"a", "b"}
    /\ edit_content = "hello"
    /\ epub.manifest["b"].content = "hello"
    /\ epub.manifest["a"].content = "chapter"

-----------------------------------------------------------------------------
(* C2 *)

\* C2: SelectItem with an id that is no key of the manifest reports
\* UnknownManifestId and leaves current_item_id and the edit buffer alone.
OpenUnknownIdFails ==
    [][\A id \in Ids :
         (SelectItem(id) /\ id \notin DOMAIN epub.manifest)
         => /\ ErrorReported("UnknownManifestId")'
            /\ current_item_id' = current_item_id
            /\ edit_content' = edit_content]_vars

-----------------------------------------------------------------------------
(* C3 *)

\* C3: SelectItem with a key of the manifest makes it the current item and
\* replaces the edit buffer by that item's content; the document is unchanged.
OpenLoadsItem ==
    [][\A id \in Ids :
         (SelectItem(id) /\ id \in DOMAIN epub.manifest)
         => /\ current_item_id' = Some(id)
            /\ edit_content' = epub.manifest[id].content
            /\ epub' = epub]_vars

\* "hello" was committed to a, the first item of the spine; then b was
\* opened and the buffer shows b's content
OpenWitness ==
    /\ msg.type = "SelectItem"
    /\ epub.spine = <<"a", "b">>
    /\ epub.manifest["a"].content = "hello"
    /\ epub.manifest["b"].content = "chapter"
    /\ current_item_id = Some("b")
    /\ edit_content = "chapter"

-----------------------------------------------------------------------------
(* C4 *)

\* C4: SaveContent while no item is open reports NoOpenItem and leaves the
\* document unchanged.
CommitWithoutItemFails ==
    [][(/\ build = "ui2"
        /\ msg'.type = "SaveContent"
        /\ current_item_id = None)
       => /\ ErrorReported("NoOpenItem")'
          /\ epub' = epub]_vars

-----------------------------------------------------------------------------
(* C5 *)

\* C5: a load that completes with an error changes nothing of the editor:
\* document, current item, edit buffer, displayed content, mode and preview
\* are what they were before the completion was processed.
FailedLoadTouchesNothing ==
    [][(msg'.type = "EpubLoaded" /\ ~msg'.ok) => UNCHANGED editor]_vars

\* the file dialog was cancelled while a book was open with an item selected
\* and unsaved text in the buffer
FailedLoadWitness ==
    /\ build = "ui2"
    /\ LoadFailed
    /\ msg.err = NoFileSelected
    /\ epub.spine # <<>>
    /\ current_item_id = Some("a")
    /\ edit_content = "hello"

-----------------------------------------------------------------------------
(* C6 *)

\* C6: after a load completed with an error, what update returned or what
\* view() shows carries that error.
FailedLoadIsShown == LoadFailed => ErrorReported(msg.err)

-----------------------------------------------------------------------------
(* C7 *)

\* C7: the manifest changes only in a step that processes SaveContent (or
\* replaces the whole document by a loaded one); SelectItem, EditContent,
\* UpdateMetadata, ToggleEditorMode and every other message leave it as it
\* is, and SelectItem of a manifest item drops the buffer for the item's
\* content.
NoSilentAutoSave ==
    [][/\ (msg'.type \notin {"SaveContent", "EpubLoaded"}
             => epub'.manifest = epub.manifest)
       /\ (msg'.type = "EpubLoaded" /\ ~msg'.ok
             => epub'.manifest = epub.manifest)
       /\ \A id \in Ids :
            (SelectItem(id) /\ id \in DOMAIN epub.manifest)
            => edit_content' = epub.manifest[id].content]_vars

\* unsaved text: "hello" was typed for item a, whose content is still the
\* parsed one
UnsavedEditWitness ==
    /\ msg.type = "EditContent"
    /\ current_item_id = Some("a")
    /\ "a" \in DOMAIN epub.manifest
    /\ epub.manifest["a"].content = "chapter"
    /\ edit_content = "hello"

-----------------------------------------------------------------------------
(* C8 *)

-----------------------------------------------------------------------------
(* C9 *)

\* C9: current_item_id is unset or a key of the manifest, in every state.
CurrentItemInManifest ==
    current_item_id = None \/ current_item_id.val \in DOMAIN epub.manifest

-----------------------------------------------------------------------------
(* C10 *)

\* C10: OpenEpub dispatches exactly one future and changes nothing of the
\* editor; only OpenEpub starts a future and only EpubLoaded ends one, one
\* per message; an EpubLoaded carries a whole document or an error; the
\* delivery of a future in flight is enabled in every state until it
\* happens; and under the fairness of FairSpec every future in flight is
\* eventually delivered.
OneCompletionPerOpen ==
    /\ [][msg'.type = "OpenEpub"
            => /\ Cardinality(InFlight(tasks')) = Cardinality(InFlight(tasks)) + 1
               /\ InFlight(tasks) \subseteq InFlight(tasks')
               /\ ret' = "Command::perform"
               /\ UNCHANGED editor]_vars
       /\ [][msg'.type = "EpubLoaded"
            => /\ Cardinality(InFlight(tasks')) + 1 = Cardinality(InFlight(tasks))
               /\ InFlight(tasks') \subseteq InFlight(tasks)
               /\ (msg'.ok /\ build = "ui2" => epub' \in Documents)
               /\ (~msg'.ok => msg'.err # "")]_vars
       /\ [][InFlight(tasks') # InFlight(tasks)
            => msg'.type \in {"OpenEpub", "EpubLoaded"}]_vars
       /\ [](\A k \in Slots : tasks[k] # "idle" => ENABLED Delivery(k))
       /\ \A k \in Slots : (tasks[k] # "idle") ~> (tasks[k] = "idle")

\* of two requests in flight the first was delivered, with a book, and its
\* slot is idle again; the second is still in flight
DeliveredWitness ==
    /\ msg.type = "EpubLoaded"
    /\ InFlight(tasks) = {2}
    /\ epub.spine # <<>>

-----------------------------------------------------------------------------
(* C11 *)

\* C11: the delivery of a future that a later OpenEpub has superseded changes
\* nothing of the editor (its result is discarded), whichever future is
\* delivered first.
SupersededLoadIsDiscarded ==
    [][\A k \in Slots :
         (/\ msg'.type = "EpubLoaded"
          /\ tasks[k] = "superseded"
          /\ tasks'[k] = "idle")
         => UNCHANGED editor]_vars

-----------------------------------------------------------------------------
(* C12 *)

\* the field of EpubMetadata that MetadataField f names
FieldOf(m, f) ==
    CASE f = "Title"    -> m.title
      [] f = "Author"   -> m.author
      [] f = "Language" -> m.language

\* C12: UpdateMetadata(field, value) reports no error for any field and
\* value; afterwards the named metadata field is value, and the other two
\* fields, the manifest, the spine, current_item_id and the edit buffer are
\* as before.
UpdateMetadataSetsOneField ==
    [][\A f \in MetadataField, v \in Texts :
         UpdateMetadata(f, v)
         => /\ FieldOf(epub'.metadata, f) = v
            /\ \A g \in MetadataField \ {f} :
                 FieldOf(epub'.metadata, g) = FieldOf(epub.metadata, g)
            /\ epub'.manifest = epub.manifest
            /\ epub'.spine = epub.spine
            /\ current_item_id' = current_item_id
            /\ edit_content' = edit_content
            /\ ret' = "Command::none"]_vars

\* the author of a loaded book was cleared while an edited item is open
UpdateMetadataWitness ==
    /\ msg.type = "UpdateMetadata"
    /\ epub.metadata = EpubMetadata("hello", "", "hello")
    /\ epub.spine = <<"a">>
    /\ current_item_id = Some("a")
    /\ edit_content = "hello"
    /\ epub.manifest["a"].content = "chapter"

-----------------------------------------------------------------------------
(* C13 *)

\* C13: EditContent(text), in either build and in any state, makes the edit
\* buffer exactly text and leaves the document (metadata, manifest, spine),
\* current_item_id and the displayed current_content as they were.
EditReplacesBufferOnly ==
    [][\A text \in Texts :
         (EditContent(text) \/ Ui_EditContent(text))
         => /\ edit_content' = text
            /\ epub' = epub
            /\ current_item_id' = current_item_id
            /\ current_content' = current_content]_vars

\* src/src/ui.rs: text typed over a loaded dump, the dump still displayed
EditWitness ==
    /\ build = "ui"
    /\ msg.type = "EditContent"
    /\ edit_content = "hello"
    /\ current_content = "title: T"

\* src/test/ui2.rs: text typed while no item is open
EditNoItemWitness ==
    /\ build = "ui2"
    /\ msg.type = "EditContent"
    /\ current_item_id = None
    /\ edit_content = "hello"

-----------------------------------------------------------------------------
(* C14 *)

\* the texts that belong to document e and to the session on it
TextsOf(e, cur, buffer) ==
    {e.manifest[id].content : id \in DOMAIN e.manifest}
    \cup (IF cur # None THEN {buffer} ELSE {})

\* C14: right after EpubLoaded(Ok(epub)) is processed, either current_item_id
\* is the first spine id of the new document and the edit buffer is that
\* item's content in the new manifest, or no item is open and the edit buffer
\* holds no text of the document loaded before (stated for prior states whose
\* open item, if any, is an item of the prior document).
LoadedSessionIsOfNewDocument ==
    [][(/\ build = "ui2"
        /\ msg'.type = "EpubLoaded"
        /\ msg'.ok
        /\ (current_item_id = None
            \/ current_item_id.val \in DOMAIN epub.manifest))
       => \/ /\ epub'.spine # <<>>
             /\ current_item_id' = Some(Head(epub'.spine))
             /\ Head(epub'.spine) \in DOMAIN epub'.manifest
             /\ edit_content' = epub'.manifest[Head(epub'.spine)].content
          \/ /\ current_item_id' = None
             /\ edit_content' \notin
                  TextsOf(epub, current_item_id, edit_content) \ {""}]_vars


-----------------------------------------------------------------------------
(* C15 *)

\* C15: in every reachable state of src/test/ui2.rs whose editor_mode is
\* Markdown, markdown_preview is the rendering of the current edit buffer.
PreviewInSync ==
    (build = "ui2" /\ editor_mode = "Markdown")
    => markdown_preview = update_markdown_preview(edit_content)

-----------------------------------------------------------------------------
(* C16 *)

\* C16: in src/src/ui.rs the displayed current_content changes only in a step
\* that processes EpubLoaded(Ok) or SaveContent, and right after either of
\* those steps it equals edit_content; EditContent, Test, OpenEpub and
\* EpubLoaded(Err) leave it as it was.
ShownChangesOnlyOnLoadOrSave ==
    [][build = "ui"
       => LET saves == \/ msg'.type = "SaveContent"
                       \/ (msg'.type = "EpubLoaded" /\ msg'.ok)
          IN  /\ current_content' # current_content => saves
              /\ saves => current_content' = edit_content'
              /\ msg'.type \in {"EditContent", "Test", "OpenEpub"}
                 => current_content' = current_content
              /\ (msg'.type = "EpubLoaded" /\ ~msg'.ok)
                 => current_content' = current_content]_vars

\* a typed text became the displayed content by SaveContent, a load pending
ShownWitness ==
    /\ build = "ui"
    /\ msg.type = "SaveContent"
    /\ current_content = "hello"
    /\ edit_content = "hello"
    /\ InFlight(tasks) # {}

-----------------------------------------------------------------------------
(* C17 *)

\* the line "key: v1, v2, ..." of one (key, values) pair, built value by
\* value from the last one
RECURSIVE CommaList(_)
CommaList(values) ==
    IF values = <<>> THEN <<>>
    ELSE IF Len(values) = 1 THEN values[1]
    ELSE CommaList(SubSeq(values, 1, Len(values) - 1))
         \o <<", ">> \o values[Len(values)]

KeyLine(pair) == pair[1] \o <<": ">> \o CommaList(pair[2])

KeyLines(table) == [i \in 1..Len(table) |-> KeyLine(table[i])]

\* the lines of a text: the empty text has none, any other text has one line
\* more than it has line breaks
RECURSIVE SplitLines(_)
SplitLines(text) ==
    IF text = <<>> THEN << <<>> >>
    ELSE IF Head(text) = "\n" THEN << <<>> >> \o SplitLines(Tail(text))
    ELSE LET rest == SplitLines(Tail(text))
         IN  << <<Head(text)>> \o rest[1] >> \o Tail(rest)

Lines(text) == IF text = <<>> THEN <<>> ELSE SplitLines(text)

\* lines put one after the other with a line break between two of them
RECURSIVE Unlines(_)
Unlines(lines) ==
    IF lines = <<>> THEN <<>>
    ELSE IF Len(lines) = 1 THEN lines[1]
    ELSE Unlines(SubSeq(lines, 1, Len(lines) - 1))
         \o <<"\n">> \o lines[Len(lines)]

\* no key and no value of the table has a line break in it
SingleLine(table) ==
    \A i \in 1..Len(table) :
       /\ "\n" \notin Range(table[i][1])
       /\ \A j \in 1..Len(table[i][2]) : "\n" \notin Range(table[i][2][j])

\* a failure of the library comes back as Err, prefixed
ErrIsPrefixed ==
    (opened # None /\ ~epub_doc.val.ok)
    => /\ ~opened.val.ok
       /\ Head(opened.val.err) = "Error opening EPUB: "
       /\ Tail(opened.val.err) = epub_doc.val.err

\* C17: for every outcome of the library, open_epub returns Err prefixed
\* "Error opening EPUB: " or Ok(text) whose lines are exactly the lines
\* "key: v1, v2, ..." of the metadata keys, one line per key, no trailing
\* line break, and no line at all for an empty table.
DumpIsOneLinePerKey ==
    /\ ErrIsPrefixed
    /\ (opened # None /\ epub_doc.val.ok)
       => /\ opened.val.ok
          /\ Lines(opened.val.val) = KeyLines(epub_doc.val.val)

\* C17: for every outcome of the library, open_epub returns Err prefixed
\* "Error opening EPUB: " or Ok(text) where text is the strings
\* "key: v1, v2, ..." of the metadata keys joined by a line break, with no
\* trailing line break and empty for an empty table; these are exactly the
\* lines of text, one per key, when no key and no value contains a line break.
DumpIsKeyLinesJoined ==
    /\ ErrIsPrefixed
    /\ (opened # None /\ epub_doc.val.ok)
       => LET table == epub_doc.val.val
          IN  /\ opened.val.ok
              /\ opened.val.val = Unlines(KeyLines(table))
              /\ table = <<>> => Text(opened.val.val) = ""
              /\ SingleLine(table)
                 => Lines(opened.val.val) = KeyLines(table)

\* the dump of a book with two keys, one of them a two-valued description
\* with a line break in a value
DumpWitness ==
    /\ opened # None
    /\ epub_doc.val = Ok(<< << <<"title">>, << <<"A">> >> >>,
                            << <<"description">>,
                               << <<"A">>, <<"x", "\n", "y">> >> >> >>)
    /\ opened.val.ok
    /\ Text(opened.val.val) = "title: A\ndescription: A, x\ny"

=============================================================================
